---- MODULE Spec2Model ----
(***************************************************************************)
(* Model of statical's CalendarCollection                                  *)
(* (src/model/calendar_collection.rs): the month, week and day indices     *)
(* built by CalendarCollection::new, the week grid built by                *)
(* WeekContext::context, and the page sequencing of create_month_pages,    *)
(* create_week_pages and create_day_pages.                                 *)
(*                                                                         *)
(* A Date is the pair (year, ordinal) the `time` crate stores; an instant  *)
(* is a Date and an hour of the day.  An event reference (Rc<Event>) is    *)
(* the pair <<c, i>>: the i-th event of the c-th calendar.                 *)
(***************************************************************************)
EXTENDS Integers, Sequences, FiniteSets, TLC

\* ------------------------------------------------------------------------
\* Bounds of the model
\* ------------------------------------------------------------------------
MaxCalendars == 2
MaxEvents == 3

\* ------------------------------------------------------------------------
\* Calendar arithmetic of the `time` crate, as used by the source
\* ------------------------------------------------------------------------
IsLeapYear(y) == (y % 4 = 0) /\ ((y % 100 # 0) \/ (y % 400 = 0))

DaysInYear(y) == IF IsLeapYear(y) THEN 366 ELSE 365

\* Days before 1 January of year y, counted from 1 January of year 1.
DaysBeforeYear(y) ==
    365 * (y - 1) + ((y - 1) \div 4) - ((y - 1) \div 100) + ((y - 1) \div 400)

\* Cumulative days before each month of a common year.
CumulativeDays == <<0, 31, 59, 90, 120, 151, 181, 212, 243, 273, 304, 334>>

\* Cumulative days before each month.
DaysBeforeMonth(y, m) == CumulativeDays[m] + (IF IsLeapYear(y) /\ m > 2 THEN 1 ELSE 0)

\* Date::from_calendar_date
FromCalendarDate(y, m, d) == [year |-> y, ordinal |-> DaysBeforeMonth(y, m) + d]

\* Date::month, as a number 1..12
MonthOf(date) ==
    CHOOSE m \in 1..12 :
        /\ DaysBeforeMonth(date.year, m) < date.ordinal
        /\ (m = 12 \/ date.ordinal <= DaysBeforeMonth(date.year, m + 1))

\* Date::day
DayOf(date) == date.ordinal - DaysBeforeMonth(date.year, MonthOf(date))

\* Number of days from 1 January of year 1 (a Monday) to the date.
DayNumber(date) == DaysBeforeYear(date.year) + date.ordinal - 1

\* Weekday::number_from_monday of Date::weekday: Monday = 1 .. Sunday = 7
NumberFromMonday(date) == (DayNumber(date) % 7) + 1

\* Weekday::number_days_from_sunday of Date::weekday: Sunday = 0 .. Saturday = 6
NumberDaysFromSunday(date) == NumberFromMonday(date) % 7

\* time::util::weeks_in_year: 53 when 1 January is a Thursday, or a Wednesday
\* of a leap year; 52 otherwise.
WeeksInYear(y) ==
    LET jan1 == NumberFromMonday([year |-> y, ordinal |-> 1])
    IN  IF jan1 = 4 \/ (jan1 = 3 /\ IsLeapYear(y)) THEN 53 ELSE 52

\* Date::iso_year_week
IsoYearWeek(date) ==
    LET w == (date.ordinal + 10 - NumberFromMonday(date)) \div 7
    IN  IF w = 0 THEN <<date.year - 1, WeeksInYear(date.year - 1)>>
        ELSE IF w = 53 /\ WeeksInYear(date.year) = 52 THEN <<date.year + 1, 1>>
        ELSE <<date.year, w>>

\* Date + n.days(), n >= 0: carry the ordinal into the following years.
RECURSIVE AddDays(_, _)
AddDays(date, n) ==
    IF date.ordinal + n > DaysInYear(date.year)
    THEN AddDays([year |-> date.year + 1, ordinal |-> 1],
                 date.ordinal + n - DaysInYear(date.year) - 1)
    ELSE [year |-> date.year, ordinal |-> date.ordinal + n]

\* Ord for Date: by year, then by ordinal.
DateLess(a, b) == a.year < b.year \/ (a.year = b.year /\ a.ordinal < b.ordinal)

\* Ord for the tuple keys (Year, u8): lexicographic.
PairLess(a, b) == a[1] < b[1] \/ (a[1] = b[1] /\ a[2] < b[2])

\* Ord for OffsetDateTime (one display time zone): by date, then by hour.
StartLess(s, t) == DateLess(s.date, t.date) \/ (s.date = t.date /\ s.hour < t.hour)

\* A from_iso_week_date that clamps the week to the last week of the year.
FromIsoWeekDateClamped(year, week, weekday) ==
    LET w == IF week > WeeksInYear(year) THEN WeeksInYear(year) ELSE week
    IN  [ok |-> TRUE,
         date |-> AddDays([year |-> year, ordinal |-> 4],
                          7 * (w - 1) + weekday
                            - NumberFromMonday([year |-> year, ordinal |-> 4]))]

\* Date::from_iso_week_date(year, week, weekday): an error when the year has no
\* such week, else the date of that weekday (1 = Monday .. 7 = Sunday).
FromIsoWeekDate(year, week, weekday) ==
    IF week < 1 \/ week > WeeksInYear(year)
    THEN [ok |-> FALSE]
    ELSE LET raw == DaysBeforeYear(year)
             jan_4 == CASE raw % 7 = 1 -> 8
                        [] raw % 7 = 2 -> 9
                        [] raw % 7 = 3 -> 10
                        [] raw % 7 = 4 -> 4
                        [] raw % 7 = 5 -> 5
                        [] raw % 7 = 6 -> 6
                        [] OTHER -> 7
             ordinal == week * 7 + weekday - jan_4
         IN  IF ordinal <= 0
             THEN [ok |-> TRUE,
                   date |-> [year |-> year - 1,
                             ordinal |-> ordinal + DaysInYear(year - 1)]]
             ELSE IF ordinal > DaysInYear(year)
             THEN [ok |-> TRUE,
                   date |-> [year |-> year + 1,
                             ordinal |-> ordinal - DaysInYear(year)]]
             ELSE [ok |-> TRUE, date |-> [year |-> year, ordinal |-> ordinal]]

Sunday == 7

\* The names of time::Month
MonthNames ==
    <<"January", "February", "March", "April", "May", "June", "July",
      "August", "September", "October", "November", "December">>

\* Display of time::Month
MonthName(m) == MonthNames[m]

\* ------------------------------------------------------------------------
\* Events and calendars
\* ------------------------------------------------------------------------
\* Start instants the events of the model are drawn from.
Starts ==
    { [date |-> FromCalendarDate(2019, 12, 30), hour |-> 10],  \* Monday, ISO week 2020-W01
      [date |-> FromCalendarDate(2020, 12, 27), hour |-> 10],  \* Sunday, ISO week 2020-W52
      [date |-> FromCalendarDate(2021, 1, 1), hour |-> 10],    \* Friday, ISO week 2020-W53
      [date |-> FromCalendarDate(2021, 1, 4), hour |-> 20],    \* Monday, ISO week 2021-W01
      [date |-> FromCalendarDate(2021, 1, 4), hour |-> 9] }    \* the same day, earlier

\* Event::start, Event::year and Event::week
EventStart(e) == e.start

EventYear(e) == e.start.date.year

EventWeek(e) == IsoYearWeek(e.start.date)[2]

\* Sequences over S of length at most n.
SeqsUpTo(S, n) == UNION { [1..k -> S] : k \in 0..n }

\* The ways to cut a sequence of n events into k calendars: the index of the
\* last event of each calendar.
Cuts(n, k) ==
    { b \in [1..k -> 0..n] :
        /\ \A i \in 1..k : i < k => b[i] <= b[i + 1]
        /\ k > 0 => b[k] = n }

\* Calendar lists of at most MaxCalendars calendars holding at most MaxEvents
\* events in all: what Calendar::parse_calendars and expand_recurrences leave.
CalendarLists ==
    UNION { UNION { { [c \in 1..k |->
                        SubSeq(flat, (IF c = 1 THEN 0 ELSE b[c - 1]) + 1, b[c])] :
                      b \in Cuts(Len(flat), k) } :
                    k \in (IF Len(flat) = 0 THEN 0 ELSE 1)..MaxCalendars } :
            flat \in SeqsUpTo([start : Starts], MaxEvents) }

\* Calendar::events of every calendar, flattened in the order of the loops of
\* CalendarCollection::new: the references <<c, i>>.
RECURSIVE EventRefs(_, _)
EventRefs(cals, c) ==
    IF c > Len(cals) THEN <<>>
    ELSE [i \in 1..Len(cals[c]) |-> <<c, i>>] \o EventRefs(cals, c + 1)

\* The event a reference points to.
Deref(cals, ref) == cals[ref[1]][ref[2]]

\* ------------------------------------------------------------------------
\* The indices: BTreeMap<key, Vec<Rc<Event>>>
\* ------------------------------------------------------------------------
EmptyMap == [k \in {} |-> <<>>]

\* An entry().push() that starts the bucket afresh at each insertion.
EntryPushOverwrite(map, key, ref) ==
    [k \in DOMAIN map \cup {key} |-> IF k = key THEN <<ref>> ELSE map[k]]

\* An entry().push() that inserts at the front of the bucket.
EntryPushFront(map, key, ref) ==
    IF key \in DOMAIN map
    THEN [map EXCEPT ![key] = <<ref>> \o @]
    ELSE [k \in DOMAIN map \cup {key} |-> IF k = key THEN <<ref>> ELSE map[k]]

\* map.entry(key).or_insert(Vec::new()).push(ref)
EntryPush(map, key, ref) ==
    IF key \in DOMAIN map
    THEN [map EXCEPT ![key] = Append(@, ref)]
    ELSE [k \in DOMAIN map \cup {key} |-> IF k = key THEN <<ref>> ELSE map[k]]

MonthKey(e) == <<EventYear(e), MonthOf(EventStart(e).date)>>

WeekKey(e) == <<EventYear(e), EventWeek(e)>>

DayKey(e) == EventStart(e).date

\* The body of the loops of CalendarCollection::new over the first n references.
RECURSIVE BuildMonths(_, _, _)
BuildMonths(cals, refs, n) ==
    IF n = 0 THEN EmptyMap
    ELSE EntryPush(BuildMonths(cals, refs, n - 1), MonthKey(Deref(cals, refs[n])), refs[n])

RECURSIVE BuildWeeks(_, _, _)
BuildWeeks(cals, refs, n) ==
    IF n = 0 THEN EmptyMap
    ELSE EntryPush(BuildWeeks(cals, refs, n - 1), WeekKey(Deref(cals, refs[n])), refs[n])

RECURSIVE BuildDays(_, _, _)
BuildDays(cals, refs, n) ==
    IF n = 0 THEN EmptyMap
    ELSE EntryPush(BuildDays(cals, refs, n - 1), DayKey(Deref(cals, refs[n])), refs[n])

\* BTreeMap::iter of MonthMap and WeekMap: the keys in ascending order of Ord.
SortedPairKeys(keys) ==
    [i \in 1..Cardinality(keys) |->
        CHOOSE k \in keys : Cardinality({o \in keys : PairLess(o, k)}) = i - 1]

\* BTreeMap::iter of DayMap: the keys in ascending order of Ord.
SortedDateKeys(keys) ==
    [i \in 1..Cardinality(keys) |->
        CHOOSE k \in keys : Cardinality({o \in keys : DateLess(o, k)}) = i - 1]

\* ------------------------------------------------------------------------
\* Page contexts and file names
\* ------------------------------------------------------------------------
None == [some |-> FALSE]

Some(v) == [some |-> TRUE, value |-> v]

\* format!("{}-{}.html", year, month)
MonthFileName(key) == ToString(key[1]) \o "-" \o ToString(key[2]) \o ".html"

\* format!("{}-{}.html", year, week)
WeekFileName(key) == ToString(key[1]) \o "-" \o ToString(key[2]) \o ".html"

\* A number zero-padded to at least `width` digits.
RECURSIVE ZeroPad(_, _)
ZeroPad(str, width) == IF Len(str) >= width THEN str ELSE ZeroPad("0" \o str, width)

\* format!("{}.html", day.format("[year]-[month]-[day]"))
DayFileName(day) ==
    ZeroPad(ToString(day.year), 4) \o "-" \o ZeroPad(ToString(MonthOf(day)), 2)
        \o "-" \o ZeroPad(ToString(DayOf(day)), 2) \o ".html"

\* Event::context(tz)
EventContext(cals, ref) == [event |-> ref, start |-> EventStart(Deref(cals, ref))]

\* DayContext::new(date, events)
DayContextNew(date, events) ==
    [date |-> date, month |-> MonthName(MonthOf(date)), events |-> events]

\* The week_day_map of create_week_pages after the first n events of a bucket.
RECURSIVE BuildWeekDayMap(_, _, _)
BuildWeekDayMap(cals, events, n) ==
    IF n = 0 THEN EmptyMap
    ELSE EntryPush(BuildWeekDayMap(cals, events, n - 1),
                   NumberDaysFromSunday(EventStart(Deref(cals, events[n])).date),
                   events[n])

\* A context() that starts the grid at the Monday of the ISO week.
WeekDayMapContextFromMonday(cals, week_day_map, year, week) ==
    LET monday == FromIsoWeekDate(year, week, 1)
    IN  IF ~monday.ok
        THEN [ok |-> FALSE]
        ELSE [ok |-> TRUE,
              week_dates |->
                [n \in 1..7 |->
                    LET o == n - 1
                    IN  DayContextNew(
                            AddDays(monday.date, o),
                            IF o \in DOMAIN week_day_map
                            THEN [j \in 1..Len(week_day_map[o]) |->
                                    EventContext(cals, week_day_map[o][j])]
                            ELSE <<>>)]]

\* impl WeekContext for WeekDayMap: context(year, week, tz)
WeekDayMapContext(cals, week_day_map, year, week) ==
    LET sunday == FromIsoWeekDate(year, week, Sunday)
    IN  IF ~sunday.ok
        THEN [ok |-> FALSE]
        ELSE [ok |-> TRUE,
              week_dates |->
                [n \in 1..7 |->
                    LET o == n - 1
                    IN  DayContextNew(
                            AddDays(sunday.date, o),
                            IF o \in DOMAIN week_day_map
                            THEN [j \in 1..Len(week_day_map[o]) |->
                                    EventContext(cals, week_day_map[o][j])]
                            ELSE <<>>)]]

\* A label built without dedup().
DedupNothing(seq) == seq

\* dedup_iter's dedup: consecutive duplicates collapse.
RECURSIVE Dedup(_)
Dedup(seq) ==
    IF Len(seq) <= 1 THEN seq
    ELSE IF seq[1] = seq[2] THEN Dedup(Tail(seq))
    ELSE <<seq[1]>> \o Dedup(Tail(seq))

\* [String]::join(sep)
RECURSIVE Join(_, _)
Join(seq, sep) ==
    IF Len(seq) = 0 THEN ""
    ELSE IF Len(seq) = 1 THEN seq[1]
    ELSE seq[1] \o sep \o Join(Tail(seq), sep)

\* The "month" value of a week page's context.
WeekMonthLabel(week_dates) ==
    Join(Dedup([n \in 1..Len(week_dates) |-> week_dates[n].month]), " - ")

\* File::create(path) followed by render_to(template, context, file): the file
\* is created, then filled.  A failing render leaves the created file unfilled.
WriteFile(fs, name, template, context, rendered) ==
    [f \in DOMAIN fs \cup {name} |->
        IF f = name
        THEN [template |-> template, context |-> context, rendered |-> rendered]
        ELSE fs[f]]

\* Outcome of the I/O of one iteration: position `io.at` fails in `io.mode`.
IoFails(io, i, mode) == io.at = i /\ io.mode = mode

\* A peek taken before the iterator has advanced: the current bucket.
PeekCurrent(keys, i) == IF i <= Len(keys) THEN Some(keys[i]) ELSE None

\* Peekable::peek once next() has yielded the i-th bucket: the bucket after it.
Peek(keys, i) == IF i < Len(keys) THEN Some(keys[i + 1]) ELSE None

\* The while loop of create_month_pages from the i-th bucket on.
RECURSIVE MonthLoop(_, _, _, _, _, _, _)
MonthLoop(map, keys, i, previous_file_name, fs, writes, io) ==
    IF i > Len(keys) THEN [result |-> "Ok", files |-> fs, writes |-> writes]
    ELSE
      LET key == keys[i]
          file_name == MonthFileName(key)
          next_file_name ==
              LET peeked == Peek(keys, i)
              IN  IF peeked.some THEN Some(MonthFileName(peeked.value)) ELSE None
          context == [year |-> key[1], month |-> key[2], events |-> map[key],
                      previous_file_name |-> previous_file_name,
                      next_file_name |-> next_file_name]
      IN  IF IoFails(io, i, "create")
          THEN [result |-> "IoError", files |-> fs, writes |-> writes]
          ELSE IF IoFails(io, i, "render")
          THEN [result |-> "IoError",
                files |-> WriteFile(fs, file_name, "month.html", context, FALSE),
                writes |-> Append(writes, file_name)]
          ELSE MonthLoop(map, keys, i + 1, Some(file_name),
                         WriteFile(fs, file_name, "month.html", context, TRUE),
                         Append(writes, file_name), io)

\* The while loop of create_week_pages from the i-th bucket on.
RECURSIVE WeekLoop(_, _, _, _, _, _, _, _)
WeekLoop(cals, map, keys, i, previous_file_name, fs, writes, io) ==
    IF i > Len(keys) THEN [result |-> "Ok", files |-> fs, writes |-> writes]
    ELSE
      LET key == keys[i]
          week_day_map == BuildWeekDayMap(cals, map[key], Len(map[key]))
          file_name == WeekFileName(key)
          next_file_name ==
              LET peeked == Peek(keys, i)
              IN  IF peeked.some THEN Some(WeekFileName(peeked.value)) ELSE None
          week_dates == WeekDayMapContext(cals, week_day_map, key[1], key[2])
      IN  IF ~week_dates.ok
          THEN [result |-> "InvalidWeekDate", files |-> fs, writes |-> writes]
          ELSE
            LET context == [year |-> key[1],
                            month |-> WeekMonthLabel(week_dates.week_dates),
                            week |-> key[2],
                            week_dates |-> week_dates.week_dates,
                            previous_file_name |-> previous_file_name,
                            next_file_name |-> next_file_name]
            IN  IF IoFails(io, i, "create")
                THEN [result |-> "IoError", files |-> fs, writes |-> writes]
                ELSE IF IoFails(io, i, "render")
                THEN [result |-> "IoError",
                      files |-> WriteFile(fs, file_name, "week.html", context, FALSE),
                      writes |-> Append(writes, file_name)]
                ELSE WeekLoop(cals, map, keys, i + 1, Some(file_name),
                              WriteFile(fs, file_name, "week.html", context, TRUE),
                              Append(writes, file_name), io)

\* The while loop of create_day_pages from the i-th bucket on.
RECURSIVE DayLoop(_, _, _, _, _, _, _)
DayLoop(map, keys, i, previous_file_name, fs, writes, io) ==
    IF i > Len(keys) THEN [result |-> "Ok", files |-> fs, writes |-> writes]
    ELSE
      LET day == keys[i]
          file_name == DayFileName(day)
          next_file_name ==
              LET peeked == Peek(keys, i)
              IN  IF peeked.some THEN Some(DayFileName(peeked.value)) ELSE None
          context == [year |-> day.year, month |-> MonthOf(day), day |-> DayOf(day),
                      events |-> map[day],
                      previous_file_name |-> previous_file_name,
                      next_file_name |-> next_file_name]
      IN  IF IoFails(io, i, "create")
          THEN [result |-> "IoError", files |-> fs, writes |-> writes]
          ELSE IF IoFails(io, i, "render")
          THEN [result |-> "IoError",
                files |-> WriteFile(fs, file_name, "day.html", context, FALSE),
                writes |-> Append(writes, file_name)]
          ELSE DayLoop(map, keys, i + 1, Some(file_name),
                       WriteFile(fs, file_name, "day.html", context, TRUE),
                       Append(writes, file_name), io)

\* ------------------------------------------------------------------------
\* State
\* ------------------------------------------------------------------------
VARIABLES
    calendars,   \* CalendarCollection.calendars: Vec<Calendar>, each its events()
    built,       \* whether CalendarCollection::new has returned the collection
    months,      \* CalendarCollection.months
    weeks,       \* CalendarCollection.weeks
    days,        \* CalendarCollection.days
    files,       \* the files the last call created in its output directory: name -> page
    lastCall     \* the last create_*_pages call: its arguments and outcome

vars == <<calendars, built, months, weeks, days, files, lastCall>>

NoCall == [op |-> "none", dir |-> "none", result |-> "none", writes |-> <<>>]

Init ==
    /\ calendars \in CalendarLists
    /\ built = FALSE
    /\ months = EmptyMap
    /\ weeks = EmptyMap
    /\ days = EmptyMap
    /\ files = EmptyMap
    /\ lastCall = NoCall

\* CalendarCollection::new, from the parsed and expanded calendars on.
New ==
    /\ ~built
    /\ LET refs == EventRefs(calendars, 1)
       IN  /\ months' = BuildMonths(calendars, refs, Len(refs))
           /\ weeks' = BuildWeeks(calendars, refs, Len(refs))
           /\ days' = BuildDays(calendars, refs, Len(refs))
    /\ built' = TRUE
    /\ UNCHANGED <<calendars, files, lastCall>>

\* The output directories a caller may pass: one exists, one does not.
OutputDirs == {"out", "missing"}

\* A pre-flight check that lets every path through.
IsDirUnchecked(output_dir) == TRUE

\* Path::is_dir
IsDir(output_dir) == output_dir = "out"

\* The I/O failures a call over n buckets may meet: none (at = 0), or
\* File::create or the rendering failing at one bucket.
IoOutcomes(n) ==
    {[at |-> 0, mode |-> "none"]} \cup [at : 1..n, mode : {"create", "render"}]

\* The create_*_pages methods take &self and an output directory and leave the
\* collection as it is, so a call owes nothing to the calls before it: a run
\* of the model makes one call, as main does.

\* What a create_*_pages call leaves: the files it created in its output
\* directory and the record of the call.
Finish(op, output_dir, out) ==
    /\ files' = out.files
    /\ lastCall' = [op |-> op, dir |-> output_dir, result |-> out.result,
                    writes |-> out.writes]
    /\ UNCHANGED <<calendars, built, months, weeks, days>>

\* bail!("... pages path does not exist")
OutputPathError == [result |-> "OutputPathError", files |-> EmptyMap, writes |-> <<>>]

\* CalendarCollection::create_month_pages(output_dir)
CreateMonthPages ==
    /\ built
    /\ lastCall = NoCall
    /\ \E output_dir \in OutputDirs :
        IF ~IsDir(output_dir)
        THEN Finish("month", output_dir, OutputPathError)
        ELSE LET keys == SortedPairKeys(DOMAIN months)
             IN  \E io \in IoOutcomes(Len(keys)) :
                    Finish("month", output_dir,
                           MonthLoop(months, keys, 1, None, EmptyMap, <<>>, io))

\* CalendarCollection::create_week_pages(output_dir)
CreateWeekPages ==
    /\ built
    /\ lastCall = NoCall
    /\ \E output_dir \in OutputDirs :
        IF ~IsDir(output_dir)
        THEN Finish("week", output_dir, OutputPathError)
        ELSE LET keys == SortedPairKeys(DOMAIN weeks)
             IN  \E io \in IoOutcomes(Len(keys)) :
                    Finish("week", output_dir,
                           WeekLoop(calendars, weeks, keys, 1, None, EmptyMap, <<>>, io))

\* CalendarCollection::create_day_pages(output_dir)
CreateDayPages ==
    /\ built
    /\ lastCall = NoCall
    /\ \E output_dir \in OutputDirs :
        IF ~IsDir(output_dir)
        THEN Finish("day", output_dir, OutputPathError)
        ELSE LET keys == SortedDateKeys(DOMAIN days)
             IN  \E io \in IoOutcomes(Len(keys)) :
                    Finish("day", output_dir,
                           DayLoop(days, keys, 1, None, EmptyMap, <<>>, io))

Next == New \/ CreateMonthPages \/ CreateWeekPages \/ CreateDayPages

Spec == Init /\ [][Next]_vars

\* ------------------------------------------------------------------------
\* Properties
\* ------------------------------------------------------------------------
\* Every event returned by a calendar's events().
AllRefs ==
    { r \in (1..Len(calendars)) \X (1..MaxEvents) : r[2] <= Len(calendars[r[1]]) }

\* The buckets of an index that hold the reference.
BucketsOf(map, ref) == { k \in DOMAIN map : \E j \in 1..Len(map[k]) : map[k][j] = ref }

\* The positions of a bucket that hold the reference.
PositionsOf(bucket, ref) == { j \in 1..Len(bucket) : bucket[j] = ref }

\* The index holds the reference once, in the bucket of the key and in no other.
OnceUnder(map, ref, key) ==
    /\ BucketsOf(map, ref) = {key}
    /\ Cardinality(PositionsOf(map[key], ref)) = 1

\* Every reference an index holds.
Held(map) == UNION { { map[k][j] : j \in 1..Len(map[k]) } : k \in DOMAIN map }

StartOf(ref) == calendars[ref[1]][ref[2]].start

\* C1: once CalendarCollection::new has built the indices, every event of every
\* calendar is referenced from exactly one bucket of the month index, one of the
\* week index and one of the day index, under the keys (year, month of start),
\* (year, ISO week number of start) and date of start; the indices reference
\* nothing else.
C1_EachEventInOneBucketPerIndex ==
    built =>
        /\ \A ref \in AllRefs :
            LET date == StartOf(ref).date
            IN  /\ OnceUnder(months, ref, <<date.year, MonthOf(date)>>)
                /\ OnceUnder(weeks, ref, <<date.year, IsoYearWeek(date)[2]>>)
                /\ OnceUnder(days, ref, date)
        /\ Held(months) \subseteq AllRefs
        /\ Held(weeks) \subseteq AllRefs
        /\ Held(days) \subseteq AllRefs

\* C1 witness: the indices are built over two calendars with events, two of
\* which share a month but not a week.
C1_Witness ==
    /\ built
    /\ Len(calendars) = 2
    /\ \A c \in 1..2 : Len(calendars[c]) >= 1
    /\ Cardinality(AllRefs) >= 3
    /\ \E k \in DOMAIN months : Len(months[k]) >= 2
    /\ Cardinality(DOMAIN weeks) > Cardinality(DOMAIN months)

\* Every event of bucket a starts before every event of bucket b.
BucketBefore(map, a, b) ==
    \A i \in 1..Len(map[a]), j \in 1..Len(map[b]) :
        StartLess(StartOf(map[a][i]), StartOf(map[b][j]))

\* The iteration order of an index is the chronological order of its events.
Chronological(map, keys) ==
    \A i, j \in 1..Len(keys) : i < j => BucketBefore(map, keys[i], keys[j])

\* C2: in each of the three indices the keys are visited in strictly ascending
\* order, and a bucket visited before another holds only events that start
\* earlier than every event of the other.
C2_IterationIsChronological ==
    built =>
        /\ LET keys == SortedPairKeys(DOMAIN months)
           IN  /\ \A i, j \in 1..Len(keys) : i < j => PairLess(keys[i], keys[j])
               /\ Chronological(months, keys)
        /\ LET keys == SortedPairKeys(DOMAIN weeks)
           IN  /\ \A i, j \in 1..Len(keys) : i < j => PairLess(keys[i], keys[j])
               /\ Chronological(weeks, keys)
        /\ LET keys == SortedDateKeys(DOMAIN days)
           IN  /\ \A i, j \in 1..Len(keys) : i < j => DateLess(keys[i], keys[j])
               /\ Chronological(days, keys)

\* The position of a reference in the flattened calendar-then-event sequence
\* orders references as pairs (calendar, event).
InInsertionOrder(refs) ==
    \A i, j \in 1..Len(refs) : i < j => PairLess(refs[i], refs[j])

\* C8: the events of every bucket of the three indices, and of every weekday
\* slot of a week page, are in insertion order (calendar order, then event
\* order), whatever their start times.
C8_BucketsKeepInsertionOrder ==
    /\ \A k \in DOMAIN months : InInsertionOrder(months[k])
    /\ \A k \in DOMAIN weeks : InInsertionOrder(weeks[k])
    /\ \A k \in DOMAIN days : InInsertionOrder(days[k])
    /\ \A f \in DOMAIN files :
        files[f].template = "week.html" =>
            \A n \in 1..Len(files[f].context.week_dates) :
                LET slot == files[f].context.week_dates[n].events
                IN  InInsertionOrder([j \in 1..Len(slot) |-> slot[j].event])

\* C8 witness: a week page has a weekday slot with two events of which the
\* first starts later than the second.
C8_Witness ==
    \E f \in DOMAIN files :
        /\ files[f].template = "week.html"
        /\ files[f].rendered
        /\ \E n \in 1..7 :
            LET slot == files[f].context.week_dates[n].events
            IN  /\ Len(slot) >= 2
                /\ StartLess(slot[2].start, slot[1].start)

\* The rendered week pages of the last call.
WeekPages == { f \in DOMAIN files : files[f].template = "week.html" /\ files[f].rendered }

\* (year, week) names a week of the ISO calendar: the week of 4 January of the
\* year is its week 1, and the week-th week from there still belongs to the year.
ValidIsoWeek(year, week) ==
    /\ week >= 1
    /\ IsoYearWeek(AddDays([year |-> year, ordinal |-> 4], 7 * (week - 1))) = <<year, week>>

\* The Sunday of ISO week (year, week): the date of that week that is a Sunday.
IsIsoWeekSunday(date, year, week) ==
    IsoYearWeek(date) = <<year, week>> /\ NumberFromMonday(date) = 7

\* C3: for a valid ISO (year, week), WeekContext::context returns 7 DayContexts,
\* Sunday to Saturday; entry N (0..6) is dated N days after the Sunday of ISO
\* week (year, week) and holds the events of key N of the week_day_map in their
\* order, or none when the key is absent.
C3_WeekGridIsSevenDaysFromIsoSunday ==
    \A f \in WeekPages :
        LET ctx == files[f].context
            bucket == weeks[<<ctx.year, ctx.week>>]
            week_day_map == BuildWeekDayMap(calendars, bucket, Len(bucket))
        IN  /\ ValidIsoWeek(ctx.year, ctx.week)
            /\ Len(ctx.week_dates) = 7
            /\ IsIsoWeekSunday(ctx.week_dates[1].date, ctx.year, ctx.week)
            /\ \A n \in 0..6 :
                LET day == ctx.week_dates[n + 1]
                IN  /\ DayNumber(day.date) = DayNumber(ctx.week_dates[1].date) + n
                    /\ NumberDaysFromSunday(day.date) = n
                    /\ Len(day.events) =
                         (IF n \in DOMAIN week_day_map THEN Len(week_day_map[n]) ELSE 0)
                    /\ \A j \in 1..Len(day.events) :
                         day.events[j].event = week_day_map[n][j]

\* C3 witness: a week page whose grid crosses into the next year and holds
\* events in one slot and none in the others.
C3_Witness ==
    \E f \in WeekPages :
        LET ctx == files[f].context
        IN  /\ ctx.week_dates[1].date.year < ctx.week_dates[7].date.year
            /\ \E n \in 1..7 : Len(ctx.week_dates[n].events) >= 1
            /\ \E n \in 1..7 : Len(ctx.week_dates[n].events) = 0

\* The file name of the bucket of a key, per kind of page.
FileNameOf(op, key) ==
    CASE op = "month" -> MonthFileName(key)
      [] op = "week" -> WeekFileName(key)
      [] op = "day" -> DayFileName(key)

\* The buckets of the index of a kind of page, in iteration order.
KeysOf(op) ==
    CASE op = "month" -> SortedPairKeys(DOMAIN months)
      [] op = "week" -> SortedPairKeys(DOMAIN weeks)
      [] op = "day" -> SortedDateKeys(DOMAIN days)

\* C4: the i-th page a create_*_pages call writes is the page of the i-th bucket;
\* its previous identifier is the file name of bucket i-1 (absent for the first)
\* and its next identifier the file name of bucket i+1 (absent for the last); so
\* the next identifier of a page is the name page i+1 is written under, and the
\* previous identifier of page i+1 the name of page i.
C4_PreviousAndNextNameTheNeighbours ==
    lastCall.op \in {"month", "week", "day"} =>
        LET keys == KeysOf(lastCall.op)
            names == [i \in 1..Len(keys) |-> FileNameOf(lastCall.op, keys[i])]
            writes == lastCall.writes
        IN  /\ Len(writes) <= Len(keys)
            /\ \A i \in 1..Len(writes) :
                LET ctx == files[writes[i]].context
                IN  /\ writes[i] = names[i]
                    /\ ctx.previous_file_name = (IF i = 1 THEN None ELSE Some(names[i - 1]))
                    /\ ctx.next_file_name =
                         (IF i = Len(keys) THEN None ELSE Some(names[i + 1]))
                    /\ i < Len(writes) =>
                         /\ ctx.next_file_name = Some(writes[i + 1])
                         /\ files[writes[i + 1]].context.previous_file_name = Some(writes[i])

\* C4 witness: a call has written the pages of three buckets.
C4_Witness ==
    /\ lastCall.op = "day"
    /\ lastCall.result = "Ok"
    /\ Len(lastCall.writes) >= 3

\* The months of the 7 grid days of a week page, in grid order.
GridMonths(ctx) == [n \in 1..7 |-> MonthOf(ctx.week_dates[n].date)]

\* C5: the month label of a week page is the name of the month of its grid when
\* the 7 grid days lie in one month, and "MonthA - MonthB" when they lie in two,
\* A being the month of the earlier days.
C5_MonthLabelOfTheGrid ==
    \A f \in WeekPages :
        LET ctx == files[f].context
            ms == GridMonths(ctx)
        IN  /\ \A n \in 1..7 : ms[n] \in {ms[1], ms[7]}
            /\ \A n \in 1..6 : ms[n] # ms[1] => ms[n + 1] = ms[7]
            /\ ms[1] = ms[7] => ctx.month = MonthName(ms[1])
            /\ ms[1] # ms[7] =>
                /\ ctx.month = MonthName(ms[1]) \o " - " \o MonthName(ms[7])
                /\ DateLess(ctx.week_dates[1].date, ctx.week_dates[7].date)

\* C5 witness: a page of a week in one month and a page of a week in two.
C5_Witness ==
    /\ \E f \in WeekPages : files[f].context.month = "January"
    /\ \E f \in WeekPages : files[f].context.month = "December - January"

\* The first week bucket, in iteration order, that is no valid ISO week; 0 if none.
FirstInvalidWeek(keys) ==
    LET bad == { i \in 1..Len(keys) : ~ValidIsoWeek(keys[i][1], keys[i][2]) }
    IN  IF bad = {} THEN 0 ELSE CHOOSE i \in bad : \A o \in bad : i <= o

C7_MissingDirectoryFailsFirst ==
    (lastCall.op # "none" /\ lastCall.dir = "missing") =>
        /\ lastCall.result = "OutputPathError"
        /\ DOMAIN files = {}
        /\ lastCall.writes = <<>>

\* C7 witness: a call on the missing directory with buckets to write.
C7_Witness ==
    /\ lastCall.op = "week"
    /\ lastCall.dir = "missing"
    /\ Cardinality(DOMAIN weeks) >= 2

\* C9: on every week page every event is in a day slot whose date is the date
\* of the event's start.
C9_SlotDateIsEventDate ==
    \A f \in WeekPages :
        \A n \in 1..Len(files[f].context.week_dates) :
            LET day == files[f].context.week_dates[n]
            IN  \A j \in 1..Len(day.events) : day.events[j].start.date = day.date

\* C10: every week key of the index is a valid ISO week, and create_week_pages
\* never fails with an invalid week date.
C10_WeekKeysAreValidIsoWeeks ==
    /\ \A k \in DOMAIN weeks : ValidIsoWeek(k[1], k[2])
    /\ lastCall.result # "InvalidWeekDate"

====
